---- MODULE Spec2Model ----
(***************************************************************************)
(* Pod-Diagnoser: the classification engine diagnose_pod                   *)
(* (streamlit-app/diagnostics.py) and the error-payload parser and the     *)
(* evidence rendering of the dashboard (streamlit-app/app.py).             *)
(*                                                                         *)
(* Text.  A Python str is a sequence of atoms; an atom stands for a fixed  *)
(* piece of text.  Every keyword the code searches for is one atom, so     *)
(* `needle in haystack` is "needle is a contiguous run of the haystack",   *)
(* str.lower() maps every atom to its lower-case form, and "\n" is the     *)
(* line break str.splitlines() splits on.                                  *)
(*                                                                         *)
(* Optional values.  A Python value that may be None is a sequence of      *)
(* length at most one: << >> is None, <<v>> is the value v.                *)
(***************************************************************************)
EXTENDS Integers, Sequences, FiniteSets, TLC

VARIABLES
    pc,          \* where the running diagnose_pod call is
    pod_name,    \* its argument pod_name
    pod,         \* what v1.read_namespaced_pod returned (the snapshot)
    events,      \* the local `events`
    logs,        \* the local `logs`
    calls,       \* the API calls the call has made, in order
    status,      \* the locals phase, reason, last_termination_reason, restart_count
    consulted,   \* the rules whose condition the call has evaluated, in order
    result,      \* what the call returned, or the exception it raised
    evidence,    \* the dashboard: result.get("evidence") of the report being rendered
    render_pc,   \* the dashboard: where the evidence block is
    parsed,      \* the dashboard: what parse_k8s_api_error returned
    sections,    \* the dashboard: the widgets the evidence block has emitted, in order
    session_state, \* the dashboard: st.session_state, the keys it holds and their values
    widgets,     \* the dashboard: the three select boxes, their options and values
    rendered,    \* the dashboard: the prompt and the diagnosis the last run displayed
    called,      \* the dashboard: the arguments of the last run's diagnose_pod call
    last_event   \* the dashboard: what the user did to start the last run

diagnose_vars == <<pc, pod_name, pod, events, logs, calls, status, consulted, result>>
render_vars == <<evidence, render_pc, parsed, sections>>
session_vars == <<session_state, widgets, rendered, called, last_event>>
vars == <<diagnose_vars, render_vars, session_vars>>

-----------------------------------------------------------------------------
(* Bounds of the model *)

MaxContainers == 2

-----------------------------------------------------------------------------
(* Python helpers *)

\* value or "" (x or "")
OrEmpty(opt) == IF opt = << >> THEN << >> ELSE opt[1]

\* str.lower(), one atom
LowerAtom(a) ==
    CASE a = "ImagePullBackOff" -> "imagepullbackoff"
      [] a = "ErrImagePull" -> "errimagepull"
      [] a = "CrashLoopBackOff" -> "crashloopbackoff"
      [] a = "OOMKilled" -> "oomkilled"
      [] a = "Completed" -> "completed"
      [] a = "Error" -> "error"
      [] a = "ERROR" -> "error"
      [] a = "FATAL" -> "fatal"
      [] a = "Permission denied" -> "permission denied"
      [] a = "FailedScheduling" -> "failedscheduling"
      [] a = "FailedMount" -> "failedmount"
      [] a = "Unhealthy" -> "unhealthy"
      [] a = "BackOff" -> "backoff"
      [] a = "Back-off" -> "back-off"
      [] a = "Pulled" -> "pulled"
      [] a = "Readiness " -> "readiness "
      [] a = "GET /" -> "get /"
      [] OTHER -> a

\* str.lower()
Lower(s) == [i \in 1..Len(s) |-> LowerAtom(s[i])]

\* needle in haystack
Contains(needle, haystack) ==
    \E i \in 1..(Len(haystack) - Len(needle) + 1) :
        SubSeq(haystack, i, i + Len(needle) - 1) = needle

\* any(k in text for k in keywords)
ContainsAny(keywords, text) == \E k \in keywords : Contains(<<k>>, text)

\* xs[:n] where the code has xs[-n:]
Tail_n_FromStart(xs, n) == IF Len(xs) <= n THEN xs ELSE SubSeq(xs, 1, n)

\* xs[-n:]
Tail_n(xs, n) == IF Len(xs) <= n THEN xs ELSE SubSeq(xs, Len(xs) - n + 1, Len(xs))

\* xs[:n]
Head_n(xs, n) == IF Len(xs) <= n THEN xs ELSE SubSeq(xs, 1, n)

\* str.splitlines(): the lines between line breaks, no empty last line after a
\* closing line break, and no line at all for the empty string
RECURSIVE SplitFrom(_, _)
SplitFrom(s, cur) ==
    IF s = << >> THEN (IF cur = << >> THEN << >> ELSE <<cur>>)
    ELSE IF Head(s) = "\n" THEN <<cur>> \o SplitFrom(Tail(s), << >>)
    ELSE SplitFrom(Tail(s), Append(cur, Head(s)))

SplitLines(s) == SplitFrom(s, << >>)

\* sum(xs)
RECURSIVE Sum(_)
Sum(xs) == IF xs = << >> THEN 0 ELSE Head(xs) + Sum(Tail(xs))

\* all sequences over S of length at most n
RECURSIVE SeqsUpTo(_, _)
SeqsUpTo(S, n) ==
    IF n = 0 THEN {<< >>}
    ELSE LET shorter == SeqsUpTo(S, n - 1)
         IN shorter \cup {Append(s, x) : s \in {t \in shorter : Len(t) = n - 1}, x \in S}

Some(v) == <<v>>
NoneValue == << >>

-----------------------------------------------------------------------------
(* What the cluster can answer (the Evidence Source) *)

PodNames == {"web-0", "db-0"}

Phases == {"Pending", "Running", "Failed"}

\* V1ContainerStatus: state.waiting, state.terminated and last_state.terminated are
\* None or an object whose reason is None or a str
ContainerStatus(waiting, terminated, last_terminated, restarts) ==
    [waiting |-> waiting, terminated |-> terminated,
     last_terminated |-> last_terminated, restart_count |-> restarts]

cRunning == ContainerStatus(NoneValue, NoneValue, NoneValue, 0)
cImagePullBackOff ==
    ContainerStatus(Some(Some(<<"ImagePullBackOff">>)), NoneValue, NoneValue, 0)
cErrImagePull ==
    ContainerStatus(Some(Some(<<"ErrImagePull">>)), NoneValue, NoneValue, 0)
cCrashLoop ==
    ContainerStatus(Some(Some(<<"CrashLoopBackOff">>)), NoneValue, Some(Some(<<"Error">>)), 2)
cWaitingNoReason == ContainerStatus(Some(NoneValue), NoneValue, NoneValue, 0)
cCompleted == ContainerStatus(NoneValue, Some(Some(<<"Completed">>)), NoneValue, 0)
cRestartedOOM == ContainerStatus(NoneValue, NoneValue, Some(Some(<<"OOMKilled">>)), 1)
cRestartedNoReason == ContainerStatus(NoneValue, NoneValue, Some(NoneValue), 1)

ContainerChoices ==
    {cRunning, cImagePullBackOff, cErrImagePull, cCrashLoop, cWaitingNoReason,
     cCompleted, cRestartedOOM, cRestartedNoReason}

\* pod.status.container_statuses: None or a list
ContainerStatusLists ==
    {NoneValue} \cup {Some(cs) : cs \in SeqsUpTo(ContainerChoices, MaxContainers)}

NoPod == [phase |-> "", container_statuses |-> NoneValue]

Snapshots == [phase : Phases, container_statuses : ContainerStatusLists]

\* str(e) of the ApiException of a failed pod fetch: "(404)\nReason: Not Found\n",
\* then the marker and the JSON body of the API server's Status object
NotFoundHead == <<"(404)", "\n", "Reason:", " ", "Not", " ", "Found", "\n">>

Marker == "HTTP response body:"

StatusBody(details) ==
    <<"{", "\"kind\":", "\"Status\"", ",", "\"apiVersion\":", "\"v1\"", ",",
      "\"metadata\":", "{", "}", ",", "\"status\":", "\"Failure\"", ",",
      "\"message\":", "\"pods not found\"", ",", "\"reason\":", "\"NotFound\"", ",",
      "\"details\":">> \o details \o <<",", "\"code\":", "404", "}">>

ApiErrors ==
    {NotFoundHead,
     NotFoundHead \o <<Marker, " ">>
        \o StatusBody(<<"{", "\"name\":", "\"web-0\"", ",", "\"kind\":", "\"pods\"", "}">>)
        \o <<"\n", "\n">>,
     NotFoundHead \o <<Marker, " ">> \o StatusBody(<<"{", "}">>) \o <<"\n", "\n">>}

Event(reason, message) == [reason |-> reason, message |-> message]

evFailedScheduling == Event(<<"FailedScheduling">>, <<"0/3 nodes are available">>)
evFailedMount == Event(<<"FailedMount">>, <<"MountVolume.SetUp failed">>)
evUnhealthy == Event(<<"Unhealthy">>, <<"Readiness ", "probe failed", ": HTTP 503">>)
evBackOff == Event(<<"BackOff">>, <<"Back-off", " restarting failed container">>)
evPulled == Event(<<"Pulled">>, <<"image already present">>)

\* the .items of list_namespaced_event
EventLists ==
    {<< >>, <<evPulled>>, <<evFailedScheduling>>, <<evPulled, evFailedMount>>,
     <<evPulled, evUnhealthy>>, <<evBackOff, evPulled>>, <<evUnhealthy, evFailedScheduling>>}

lnStarted == <<"server started">>
lnDns == <<"lookup db: ", "no such host">>
lnPermission == <<"open /data: ", "Permission denied">>
lnTimeout == <<"dial tcp: i/o ", "timeout">>
lnScanner == <<"GET /", "favicon.ico", " 404">>
lnFatal == <<"FATAL", ": config missing">>
lnTick == <<"tick">>

RECURSIVE JoinLines(_)
JoinLines(lines) ==
    IF lines = << >> THEN << >> ELSE Head(lines) \o <<"\n">> \o JoinLines(Tail(lines))

RECURSIVE Repeat(_, _)
Repeat(x, n) == IF n = 0 THEN << >> ELSE <<x>> \o Repeat(x, n - 1)

\* the text read_namespaced_pod_log returns: the lines of the tail of the log
LogLineLists ==
    {<< >>, <<lnStarted>>, <<lnStarted, lnDns>>, <<lnPermission, lnDns>>,
     <<lnTimeout, lnPermission>>, <<lnTimeout>>, <<lnScanner, lnTimeout>>,
     <<lnScanner, lnFatal>>, <<lnFatal, lnScanner>>, <<lnFatal>>, <<lnStarted, lnFatal>>,
     <<lnScanner>>}
    \cup {Repeat(lnTick, 14) \o ls : ls \in {<<lnStarted>>, <<lnStarted, lnFatal>>,
                                            <<lnDns, lnStarted>>, <<lnScanner, lnStarted>>}}

LogTexts == {JoinLines(ls) : ls \in LogLineLists}

\* the local `logs`: a str, or a value that is no str (None, or bytes)
StrLogs(text) == [kind |-> "str", text |-> text]
NoneLogs == [kind |-> "none", text |-> << >>]
BytesLogs(text) == [kind |-> "bytes", text |-> text]

LogResults ==
    {StrLogs(t) : t \in LogTexts} \cup {NoneLogs, BytesLogs(JoinLines(<<lnStarted, lnFatal>>))}

-----------------------------------------------------------------------------
(* diagnose_pod: the report *)

\* the evidence of a report: a str, a list of str, or a dict whose values are an
\* int, a str or a list of str (its fields in insertion order)
TextEvidence(text) == [type |-> "str", text |-> text, items |-> << >>, fields |-> << >>]
ListEvidence(items) == [type |-> "list", text |-> << >>, items |-> items, fields |-> << >>]
DictEvidence(fields) == [type |-> "dict", text |-> << >>, items |-> << >>, fields |-> fields]

IntField(key, n) == [key |-> key, kind |-> "int", num |-> n, text |-> << >>, items |-> << >>]
StrField(key, t) == [key |-> key, kind |-> "str", num |-> 0, text |-> t, items |-> << >>]
ListField(key, xs) == [key |-> key, kind |-> "list", num |-> 0, text |-> << >>, items |-> xs]

Report(category, summary, likely_cause, shown, recommendation) ==
    [category |-> category, summary |-> summary, likely_cause |-> likely_cause,
     evidence |-> shown, recommendation |-> recommendation]

NoReport == Report("", << >>, << >>, TextEvidence(<< >>), << >>)

\* the report of lines 9-14 with an empty evidence in place of str(e)
NotFoundReport_NoError(name, error) ==
    Report("NotFound",
           <<"Pod '", name, "' could not be found in the cluster.">>,
           <<"The pod name may be incorrect or it no longer exists in this namespace.">>,
           TextEvidence(<< >>),
           <<"Double-check the pod name and selected namespace, then try again.">>)

\* lines 9-14
NotFoundReport(name, error) ==
    Report("NotFound",
           <<"Pod '", name, "' could not be found in the cluster.">>,
           <<"The pod name may be incorrect or it no longer exists in this namespace.">>,
           TextEvidence(error),
           <<"Double-check the pod name and selected namespace, then try again.">>)

\* line 26: [f"{e.reason}: {e.message}" for e in events]
EventMessages(evs) == [i \in 1..Len(evs) |-> evs[i].reason \o <<": ">> \o evs[i].message]

\* line 39: logs.lower() if isinstance(logs, str) else ""
LogText(lg) == IF lg.kind = "str" THEN Lower(lg.text) ELSE << >>

\* lines 48-52: the loop's assignments to `reason`, one container after the other
RECURSIVE ReasonAfter(_, _)
ReasonAfter(cs, reason) ==
    IF cs = << >> THEN reason
    ELSE LET c == Head(cs)
         IN ReasonAfter(Tail(cs),
                IF c.waiting # NoneValue THEN OrEmpty(c.waiting[1])
                ELSE IF c.terminated # NoneValue THEN OrEmpty(c.terminated[1])
                ELSE reason)

\* lines 54-55: the loop's assignments to `last_termination_reason`
RECURSIVE LastTerminationAfter(_, _)
LastTerminationAfter(cs, reason) ==
    IF cs = << >> THEN reason
    ELSE LET c == Head(cs)
         IN LastTerminationAfter(Tail(cs),
                IF c.last_terminated # NoneValue THEN OrEmpty(c.last_terminated[1])
                ELSE reason)

\* line 58
RestartCount(cs) == Sum([i \in 1..Len(cs) |-> cs[i].restart_count])

\* lines 42-58
StatusInfo(p) ==
    LET container_statuses == OrEmpty(p.container_statuses)
    IN [phase |-> p.phase,
        reason |-> ReasonAfter(container_statuses, << >>),
        last_termination_reason |-> LastTerminationAfter(container_statuses, << >>),
        restart_count |-> RestartCount(container_statuses)]

NoStatus == [phase |-> "", reason |-> << >>, last_termination_reason |-> << >>,
             restart_count |-> 0]

-----------------------------------------------------------------------------
(* diagnose_pod: the rule chain, lines 61-233 *)

\* logs.splitlines()[-15:]
LongTail == 15
\* logs.splitlines()[-10:]
ShortTail == 10
\* backoff_events[:5]
MaxRelevantEvents == 5

\* the chain with the image-pull rule after the scheduling rule
RuleOrder_ImagePullLate ==
    <<"SchedulingOrVolumeFailure", "ImagePullFailure", "DnsFailure", "PermissionFailure",
      "NetworkTimeout", "OutOfMemoryKill", "ProbeFailure", "ScannerTraffic",
      "ApplicationError", "CrashLoopBackOff", "PodPending", "PodRunningHealthy", "Unknown">>

\* the chain with the crash-loop rule before the application-error rule
RuleOrder_CrashLoopFirst ==
    <<"ImagePullFailure", "SchedulingOrVolumeFailure", "DnsFailure", "PermissionFailure",
      "NetworkTimeout", "OutOfMemoryKill", "ProbeFailure", "ScannerTraffic",
      "CrashLoopBackOff", "ApplicationError", "PodPending", "PodRunningHealthy", "Unknown">>

\* the chain with the scanner rule after the application-error rule
RuleOrder_ScannerLate ==
    <<"ImagePullFailure", "SchedulingOrVolumeFailure", "DnsFailure", "PermissionFailure",
      "NetworkTimeout", "OutOfMemoryKill", "ProbeFailure", "ApplicationError",
      "ScannerTraffic", "CrashLoopBackOff", "PodPending", "PodRunningHealthy", "Unknown">>

\* the order of the rules in the source, lines 61-233
RuleOrder ==
    <<"ImagePullFailure", "SchedulingOrVolumeFailure", "DnsFailure", "PermissionFailure",
      "NetworkTimeout", "OutOfMemoryKill", "ProbeFailure", "ScannerTraffic",
      "ApplicationError", "CrashLoopBackOff", "PodPending", "PodRunningHealthy", "Unknown">>

DnsKeywords == {"no such host", "temporary failure in name resolution", "nxdomain", "servfail"}
ignore_patterns ==
    {"hnap1", "solr", "cgi-bin", "masscan", "nmap", "paloaltonetworks", "odin",
     "favicon.ico", "go-http-client"}
ErrorKeywords == {"error", "exception", "fatal", "panic"}

\* what the rules read: the arguments and the locals of lines 17-58
Context(name, p, evs, lg) ==
    [pod_name |-> name, status |-> StatusInfo(p), event_messages |-> EventMessages(evs),
     logs |-> lg, log_text |-> LogText(lg)]

IsProbeFailure(e) == Contains(<<"probe failed">>, Lower(e))
IsBackoffEvent(e) == Contains(<<"back-off">>, Lower(e)) \/ Contains(<<"crash">>, Lower(e))

\* line 143
ProbeFailures(msgs) == SelectSeq(msgs, IsProbeFailure)
\* line 184
BackoffEvents(msgs) == SelectSeq(msgs, IsBackoffEvent)

\* the condition of each rule's `if`
Matches(rule, ctx) ==
    CASE rule = "ImagePullFailure" ->
            \/ Contains(<<"imagepullbackoff">>, Lower(ctx.status.reason))
            \/ Contains(<<"errimagepull">>, Lower(ctx.status.reason))
      [] rule = "SchedulingOrVolumeFailure" ->
            \E i \in 1..Len(ctx.event_messages) :
                \/ Contains(<<"FailedScheduling">>, ctx.event_messages[i])
                \/ Contains(<<"FailedMount">>, ctx.event_messages[i])
      [] rule = "DnsFailure" -> ContainsAny(DnsKeywords, ctx.log_text)
      [] rule = "PermissionFailure" -> Contains(<<"permission denied">>, ctx.log_text)
      [] rule = "NetworkTimeout" -> Contains(<<"timeout">>, ctx.log_text)
      [] rule = "OutOfMemoryKill" ->
            Contains(<<"oomkilled">>, Lower(ctx.status.last_termination_reason))
      [] rule = "ProbeFailure" -> ProbeFailures(ctx.event_messages) # << >>
      [] rule = "ScannerTraffic" -> ContainsAny(ignore_patterns, ctx.log_text)
      [] rule = "ApplicationError" -> ContainsAny(ErrorKeywords, ctx.log_text)
      [] rule = "CrashLoopBackOff" ->
            Contains(<<"crashloopbackoff">>, Lower(ctx.status.reason))
      [] rule = "PodPending" -> ctx.status.phase = "Pending"
      [] rule = "PodRunningHealthy" -> ctx.status.phase = "Running"
      [] rule = "Unknown" -> TRUE

\* the rules whose report calls logs.splitlines()
ReadsLogLines(rule) ==
    rule \in {"DnsFailure", "PermissionFailure", "NetworkTimeout", "OutOfMemoryKill",
              "ScannerTraffic", "ApplicationError", "CrashLoopBackOff",
              "PodRunningHealthy", "Unknown"}

\* logs.splitlines() raises AttributeError when logs is None; bytes split like a str
SplitRaises(lg) == lg.kind = "none"

LogLines(lg) == SplitLines(lg.text)

\* the dict each rule returns
RuleReport(rule, ctx) ==
    LET lines == LogLines(ctx.logs)
        st == ctx.status
    IN
    CASE rule = "ImagePullFailure" ->
            Report(rule, <<"The pod is unable to download the container image.">>,
                   <<"The specified image name or tag may not exist, or access to the registry is denied.">>,
                   ListEvidence(ctx.event_messages),
                   <<"Verify the image name and tag in your Deployment file. Also ensure the image exists and that Kubernetes has permission to pull it.">>)
      [] rule = "SchedulingOrVolumeFailure" ->
            Report(rule, <<"The pod could not be scheduled or mounted correctly.">>,
                   <<"There are insufficient node resources or an issue with volume/PVC attachment.">>,
                   ListEvidence(ctx.event_messages),
                   <<"Check node CPU & memory availability, verify PersistentVolumeClaims, and ensure volume mounts are correctly configured.">>)
      [] rule = "DnsFailure" ->
            Report(rule, <<"The pod is unable to resolve DNS hostnames.">>,
                   <<"Cluster DNS (CoreDNS) issue or incorrect service hostname being used.">>,
                   ListEvidence(Tail_n(lines, LongTail)),
                   <<"Ensure CoreDNS pods are running and verify that the hostname or service name is correct. Try running nslookup inside the pod to confirm DNS resolution.">>)
      [] rule = "PermissionFailure" ->
            Report(rule, <<"The application failed due to file permission restrictions.">>,
                   <<"The container does not have sufficient permissions for required files or directories.">>,
                   ListEvidence(Tail_n(lines, LongTail)),
                   <<"Adjust file permissions, container user settings, or volume access rights.">>)
      [] rule = "NetworkTimeout" ->
            Report(rule, <<"The pod experienced network connectivity delays.">>,
                   <<"The application could not reach another service or external endpoint.">>,
                   ListEvidence(Tail_n(lines, LongTail)),
                   <<"Verify target service availability, network policies, and DNS configuration.">>)
      [] rule = "OutOfMemoryKill" ->
            Report(rule, <<"The pod was terminated due to excessive memory usage.">>,
                   <<"The application exceeded its assigned memory limit.">>,
                   DictEvidence(<<IntField("restart_count", st.restart_count),
                                  ListField("logs", Tail_n(lines, ShortTail))>>),
                   <<"Increase memory limits or optimize the application's memory consumption.">>)
      [] rule = "ProbeFailure" ->
            Report(rule, <<"Health checks are failing for this pod.">>,
                   <<"The pod is not responding properly to readiness or liveness probes.">>,
                   ListEvidence(ProbeFailures(ctx.event_messages)),
                   <<"Ensure your health endpoints (/health or /ready) return HTTP 200 consistently.">>)
      [] rule = "ScannerTraffic" ->
            Report(rule, <<"Non-critical external scan traffic detected.">>,
                   <<"Automated internet scanners probing the exposed service.">>,
                   ListEvidence(Tail_n(lines, ShortTail)),
                   <<"This is normal behavior. No action is required.">>)
      [] rule = "ApplicationError" ->
            Report(rule, <<"Application-level errors detected in logs.">>,
                   <<"Internal code or configuration issue in the application.">>,
                   ListEvidence(Tail_n(lines, LongTail)),
                   <<"Review detailed logs and fix application-level issues.">>)
      [] rule = "CrashLoopBackOff" ->
            Report(rule, <<"Pod '", ctx.pod_name, "' is repeatedly crashing and restarting.">>,
                   <<"The container process is failing during startup, causing Kubernetes to restart it continuously.">>,
                   DictEvidence(<<IntField("restart_count", st.restart_count),
                                  StrField("state", <<"CrashLoopBackOff">>),
                                  ListField("relevant_events",
                                            Head_n(BackoffEvents(ctx.event_messages),
                                                   MaxRelevantEvents)),
                                  ListField("last_logs", Tail_n(lines, ShortTail))>>),
                   <<"Inspect application startup behavior and verify configuration, environment variables, and required dependencies.">>)
      [] rule = "PodPending" ->
            Report(rule, <<"The pod is waiting to be scheduled.">>,
                   <<"Insufficient node resources or scheduling conflicts.">>,
                   ListEvidence(ctx.event_messages),
                   <<"Check node capacity and scaling configuration.">>)
      [] rule = "PodRunningHealthy" ->
            Report(rule, <<"The pod is healthy and running normally.">>,
                   <<"No operational issues detected.">>,
                   ListEvidence(Tail_n(lines, ShortTail)),
                   <<"No intervention required.">>)
      [] rule = "Unknown" ->
            Report(rule, <<"No clear failure pattern found for pod '", ctx.pod_name, "'.">>,
                   <<"The issue does not match any known diagnostic patterns.">>,
                   DictEvidence(<<StrField("phase", <<st.phase>>),
                                  IntField("restart_count", st.restart_count),
                                  ListField("events", ctx.event_messages),
                                  ListField("logs", Tail_n(lines, ShortTail))>>),
                   <<"Inspect logs and describe output manually for deeper analysis.">>)

\* the first rule of the chain, from position i on, whose condition holds
RECURSIVE FirstMatch(_, _)
FirstMatch(i, ctx) ==
    IF i >= Len(RuleOrder) \/ Matches(RuleOrder[i], ctx) THEN i ELSE FirstMatch(i + 1, ctx)

Returned(report) == [kind |-> "report", report |-> report, exc |-> ""]
Raised(exc) == [kind |-> "raised", report |-> NoReport, exc |-> exc]
NoResult == [kind |-> "none", report |-> NoReport, exc |-> ""]

\* lines 61-233 on the locals: the report of the first matching rule, or the
\* AttributeError of its logs.splitlines()
Classify(ctx) ==
    LET rule == RuleOrder[FirstMatch(1, ctx)]
    IN IF ReadsLogLines(rule) /\ SplitRaises(ctx.logs)
       THEN Raised("AttributeError")
       ELSE Returned(RuleReport(rule, ctx))

-----------------------------------------------------------------------------
(* diagnose_pod, step by step *)

\* one API call: its operation, how it ended, and str(e) of the ApiException it raised
Call(op, outcome, detail) == [op |-> op, outcome |-> outcome, detail |-> detail]

DiagnoseInit ==
    /\ pc = "idle"
    /\ pod_name = ""
    /\ pod = NoPod
    /\ events = << >>
    /\ logs = StrLogs(<< >>)
    /\ calls = << >>
    /\ status = NoStatus
    /\ consulted = << >>
    /\ result = NoResult

\* lines 6-7: the pod is read
FetchPodOk ==
    /\ pc = "idle"
    /\ \E name \in PodNames, p \in Snapshots :
        /\ pod_name' = name
        /\ pod' = p
    /\ calls' = <<Call("read_namespaced_pod", "ok", << >>)>>
    /\ pc' = "events"
    /\ UNCHANGED <<events, logs, status, consulted, result>>
    /\ UNCHANGED <<render_vars, session_vars>>

\* lines 8-14: the pod fetch raises ApiException
FetchPodNotFound ==
    /\ pc = "idle"
    /\ \E name \in PodNames, e \in ApiErrors :
        /\ pod_name' = name
        /\ result' = Returned(NotFoundReport(name, e))
        /\ calls' = <<Call("read_namespaced_pod", "ApiException", e)>>
    /\ pc' = "done"
    /\ UNCHANGED <<pod, events, logs, status, consulted>>
    /\ UNCHANGED <<render_vars, session_vars>>

\* line 7: the pod fetch raises an exception that is no ApiException (the
\* connection to the cluster fails); line 8 does not catch it
FetchPodError ==
    /\ pc = "idle"
    /\ \E name \in PodNames : pod_name' = name
    /\ result' = Raised("MaxRetryError")
    /\ calls' = <<Call("read_namespaced_pod", "MaxRetryError", << >>)>>
    /\ pc' = "done"
    /\ UNCHANGED <<pod, events, logs, status, consulted>>
    /\ UNCHANGED <<render_vars, session_vars>>

\* lines 18-22
FetchEventsOk ==
    /\ pc = "events"
    /\ \E evs \in EventLists : events' = evs
    /\ calls' = Append(calls, Call("list_namespaced_event", "ok", << >>))
    /\ pc' = "logs"
    /\ UNCHANGED <<pod_name, pod, logs, status, consulted, result>>
    /\ UNCHANGED <<render_vars, session_vars>>

\* lines 23-24
FetchEventsFail ==
    /\ pc = "events"
    /\ events' = << >>
    /\ calls' = Append(calls, Call("list_namespaced_event", "Exception", << >>))
    /\ pc' = "logs"
    /\ UNCHANGED <<pod_name, pod, logs, status, consulted, result>>
    /\ UNCHANGED <<render_vars, session_vars>>

\* lines 30-35
FetchLogsOk ==
    /\ pc = "logs"
    /\ \E lg \in LogResults : logs' = lg
    /\ calls' = Append(calls, Call("read_namespaced_pod_log", "ok", << >>))
    /\ pc' = "rules"
    /\ UNCHANGED <<pod_name, pod, events, status, consulted, result>>
    /\ UNCHANGED <<render_vars, session_vars>>

\* lines 36-37
FetchLogsFail ==
    /\ pc = "logs"
    /\ logs' = StrLogs(<< >>)
    /\ calls' = Append(calls, Call("read_namespaced_pod_log", "Exception", << >>))
    /\ pc' = "rules"
    /\ UNCHANGED <<pod_name, pod, events, status, consulted, result>>
    /\ UNCHANGED <<render_vars, session_vars>>

\* lines 39-233: the status info, then the rule chain up to its first match
Diagnose ==
    /\ pc = "rules"
    /\ LET ctx == Context(pod_name, pod, events, logs)
       IN /\ status' = ctx.status
          /\ consulted' = SubSeq(RuleOrder, 1, FirstMatch(1, ctx))
          /\ result' = Classify(ctx)
    /\ pc' = "done"
    /\ UNCHANGED <<pod_name, pod, events, logs, calls>>
    /\ UNCHANGED <<render_vars, session_vars>>

\* the call is over; the dashboard calls diagnose_pod again for its next selection
NextCall ==
    /\ pc = "done"
    /\ pc' = "idle"
    /\ pod_name' = ""
    /\ pod' = NoPod
    /\ events' = << >>
    /\ logs' = StrLogs(<< >>)
    /\ calls' = << >>
    /\ status' = NoStatus
    /\ consulted' = << >>
    /\ result' = NoResult
    /\ UNCHANGED <<render_vars, session_vars>>

DiagnoseNext ==
    \/ FetchPodOk
    \/ FetchPodNotFound
    \/ FetchPodError
    \/ FetchEventsOk
    \/ FetchEventsFail
    \/ FetchLogsOk
    \/ FetchLogsFail
    \/ Diagnose
    \/ NextCall

-----------------------------------------------------------------------------
(* parse_k8s_api_error, app.py lines 22-41 *)

\* str.strip() and the \s of the regular expression: the white space of the texts
WhiteSpace == {" ", "\n"}

\* the atoms "(<digits>)" and the digits in them
StatusCodes == {"(404)"}
Digits(a) == CASE a = "(404)" -> "404" [] OTHER -> a

\* the atoms made of letters only
Words == {"Not", "Found", "NotFound"}

\* position of the first atom from i on that is not in skip (Len + 1 when none)
RECURSIVE SkipAll(_, _, _)
SkipAll(s, i, skip) ==
    IF i <= Len(s) /\ s[i] \in skip THEN SkipAll(s, i + 1, skip) ELSE i

\* re.search(r"\((\d+)\)\s+Reason:\s+([A-Za-z]+)", s) at position i:
\* "(digits)", white space, "Reason:", white space, the longest run of letters
MatchAt(s, i) ==
    LET a == SkipAll(s, i + 1, WhiteSpace)
        b == SkipAll(s, a + 1, WhiteSpace)
        c == SkipAll(s, b, Words)
    IN IF /\ s[i] \in StatusCodes
          /\ a > i + 1 /\ a <= Len(s) /\ s[a] = "Reason:"
          /\ b > a + 1 /\ c > b
       THEN [found |-> TRUE, status_code |-> <<Digits(s[i])>>, reason |-> SubSeq(s, b, c - 1)]
       ELSE [found |-> FALSE, status_code |-> << >>, reason |-> << >>]

\* the leftmost match
RECURSIVE SearchFrom(_, _)
SearchFrom(s, i) ==
    IF i > Len(s) THEN [found |-> FALSE, status_code |-> << >>, reason |-> << >>]
    ELSE IF MatchAt(s, i).found THEN MatchAt(s, i)
    ELSE SearchFrom(s, i + 1)

\* position of the first occurrence of atom x in s from i on (Len + 1 when none)
RECURSIVE Find(_, _, _)
Find(s, x, i) == IF i > Len(s) \/ s[i] = x THEN i ELSE Find(s, x, i + 1)

\* s.split(Marker)[1]: what lies between the first and the second marker
SplitSecond(s) ==
    LET first == Find(s, Marker, 1)
        second == Find(s, Marker, first + 1)
    IN SubSeq(s, first + 1, second - 1)

\* position of the last atom up to i that is not white space (0 when none)
RECURSIVE LastInk(_, _)
LastInk(s, i) == IF i >= 1 /\ s[i] \in WhiteSpace THEN LastInk(s, i - 1) ELSE i

\* str.strip()
Strip(s) == SubSeq(s, SkipAll(s, 1, WhiteSpace), LastInk(s, Len(s)))


\* a JSON value as Python holds it: a str, an int, or a dict (its items in order)
StrValue(text) == [kind |-> "str", text |-> text, sub |-> << >>]
IntValue(text) == [kind |-> "int", text |-> text, sub |-> << >>]
DictValue(items) == [kind |-> "dict", text |-> << >>, sub |-> items]

\* one item of a dict
Item(key, v) == [key |-> key, kind |-> v.kind, text |-> v.text, sub |-> v.sub]
ValueOf(item) == [kind |-> item.kind, text |-> item.text, sub |-> item.sub]

\* the atoms of a JSON text: a member name with its colon, a string, a number
KeyAtoms ==
    {"\"kind\":", "\"apiVersion\":", "\"metadata\":", "\"status\":", "\"message\":",
     "\"reason\":", "\"details\":", "\"code\":", "\"name\":"}
KeyName(a) ==
    CASE a = "\"kind\":" -> "kind"
      [] a = "\"apiVersion\":" -> "apiVersion"
      [] a = "\"metadata\":" -> "metadata"
      [] a = "\"status\":" -> "status"
      [] a = "\"message\":" -> "message"
      [] a = "\"reason\":" -> "reason"
      [] a = "\"details\":" -> "details"
      [] a = "\"code\":" -> "code"
      [] a = "\"name\":" -> "name"
StringAtoms ==
    {"\"Status\"", "\"v1\"", "\"Failure\"", "\"pods not found\"", "\"NotFound\"",
     "\"web-0\"", "\"pods\"", "\"Gone\""}
Unquoted(a) ==
    CASE a = "\"Status\"" -> "Status"
      [] a = "\"v1\"" -> "v1"
      [] a = "\"Failure\"" -> "Failure"
      [] a = "\"pods not found\"" -> "pods not found"
      [] a = "\"NotFound\"" -> "NotFound"
      [] a = "\"web-0\"" -> "web-0"
      [] a = "\"pods\"" -> "pods"
      [] a = "\"Gone\"" -> "Gone"
NumberAtoms == {"404"}

\* position of key in a dict's items (0 when absent)
KeyIndex(items, key) ==
    IF \E i \in 1..Len(items) : items[i].key = key
    THEN CHOOSE i \in 1..Len(items) : items[i].key = key
    ELSE 0

\* d[key] = value: a new key goes last, a known key keeps its place
SetItem(items, item) ==
    IF KeyIndex(items, item.key) = 0 THEN Append(items, item)
    ELSE [items EXCEPT ![KeyIndex(items, item.key)] = item]

\* dict.update(other)
RECURSIVE Update(_, _)
Update(items, other) ==
    IF other = << >> THEN items ELSE Update(SetItem(items, Head(other)), Tail(other))

JsonFail == [ok |-> FALSE, val |-> StrValue(<< >>), next |-> 0]
JsonOk(v, next) == [ok |-> TRUE, val |-> v, next |-> next]

\* json.loads: the value that starts at position i of s, and where it ends.
\* value  := string | number | "{" "}" | "{" member ("," member)* "}"
\* member := name ":" value          (white space allowed between the atoms)
RECURSIVE ParseValue(_, _)
RECURSIVE ParseMembers(_, _, _)
ParseValue(s, i) ==
    IF i > Len(s) THEN JsonFail
    ELSE IF s[i] \in StringAtoms THEN JsonOk(StrValue(<<Unquoted(s[i])>>), i + 1)
    ELSE IF s[i] \in NumberAtoms THEN JsonOk(IntValue(<<s[i]>>), i + 1)
    ELSE IF s[i] = "{" THEN
        LET j == SkipAll(s, i + 1, WhiteSpace)
        IN IF j <= Len(s) /\ s[j] = "}" THEN JsonOk(DictValue(<< >>), j + 1)
           ELSE ParseMembers(s, j, << >>)
    ELSE JsonFail

\* the members from position i on, up to the closing brace
ParseMembers(s, i, items) ==
    IF i > Len(s) \/ s[i] \notin KeyAtoms THEN JsonFail
    ELSE LET v == ParseValue(s, SkipAll(s, i + 1, WhiteSpace))
             k == SkipAll(s, v.next, WhiteSpace)
             got == SetItem(items, Item(KeyName(s[i]), v.val))
         IN IF ~v.ok \/ k > Len(s) THEN JsonFail
            ELSE IF s[k] = "}" THEN JsonOk(DictValue(got), k + 1)
            ELSE IF s[k] = "," THEN ParseMembers(s, SkipAll(s, k + 1, WhiteSpace), got)
            ELSE JsonFail

\* json.loads(s): one value and nothing but white space around it
JsonLoads(s) ==
    LET v == ParseValue(s, SkipAll(s, 1, WhiteSpace))
    IN IF v.ok /\ SkipAll(s, v.next, WhiteSpace) > Len(s) THEN v ELSE JsonFail

\* data.update(parsed_json) raises for a parsed_json that is no dict: a str that is
\* not empty (ValueError) or a number (TypeError)
UpdateRaises(v) == v.kind # "dict"

\* lines 27-30: the status code and the reason of the text
SearchedData(error_string) ==
    LET m == SearchFrom(error_string, 1)
    IN IF m.found
       THEN <<Item("status_code", StrValue(m.status_code)), Item("reason", StrValue(m.reason))>>
       ELSE << >>

\* line 35
JsonPart(error_string) == Strip(SplitSecond(error_string))

\* lines 22-41
parse_k8s_api_error(error_string) ==
    LET data == SearchedData(error_string)
    IN IF ~Contains(<<Marker>>, error_string) THEN data
       ELSE LET json_part == JsonPart(error_string)
                parsed_json == JsonLoads(json_part)
            IN IF parsed_json.ok /\ ~UpdateRaises(parsed_json.val)
               THEN Update(data, parsed_json.val.sub)
               ELSE SetItem(data, Item("full_body", StrValue(json_part)))

-----------------------------------------------------------------------------
(* The evidence block of the dashboard, app.py lines 267-315 *)

MaxBodyLen == 5

\* one widget: st.markdown, st.code or one "- item" line, and the key it shows
Section(widget, key, body) == [widget |-> widget, key |-> key, body |-> body]

\* key.replace("_", " ").title()
Label(key) ==
    CASE key = "status_code" -> "Status Code"
      [] key = "reason" -> "Reason"
      [] key = "full_body" -> "Full Body"
      [] key = "status" -> "Status"
      [] key = "message" -> "Message"
      [] key = "details" -> "Details"
      [] key = "name" -> "Name"
      [] key = "restart_count" -> "Restart Count"
      [] key = "state" -> "State"
      [] key = "relevant_events" -> "Relevant Events"
      [] key = "phase" -> "Phase"
      [] key = "events" -> "Events"
      [] key = "logs" -> "Logs"
      [] OTHER -> key

\* str(n)
IntText(n) ==
    CASE n = 0 -> "0" [] n = 1 -> "1" [] n = 2 -> "2" [] n = 3 -> "3" [] n = 4 -> "4"
      [] n = 5 -> "5" [] n = 6 -> "6" [] OTHER -> "7+"

\* "\n".join(xs)
RECURSIVE JoinWith(_)
JoinWith(xs) ==
    IF xs = << >> THEN << >>
    ELSE IF Len(xs) = 1 THEN Head(xs)
    ELSE Head(xs) \o <<"\n">> \o JoinWith(Tail(xs))

\* json.dumps(value, indent=2)
RECURSIVE Dumps(_)
RECURSIVE DumpsItems(_)
Dumps(v) ==
    CASE v.kind = "str" -> <<"\"">> \o v.text \o <<"\"">>
      [] v.kind = "int" -> v.text
      [] v.kind = "dict" -> <<"{">> \o DumpsItems(v.sub) \o <<"}">>
DumpsItems(items) ==
    IF items = << >> THEN << >>
    ELSE <<"\"", Head(items).key, "\": ">> \o Dumps(ValueOf(Head(items)))
         \o (IF Len(items) > 1 THEN <<", ">> ELSE << >>) \o DumpsItems(Tail(items))

\* line 276
excluded_keys == {"kind", "apiVersion", "metadata", "code"}

\* lines 279-288 with the label and the block of a dict emitted whether or not the
\* dict is empty
ParsedSections_EmptyToo(item) ==
    IF item.key \in excluded_keys THEN << >>
    ELSE IF item.kind = "dict"
    THEN <<Section("markdown", item.key, <<"**", Label(item.key), ":**">>),
           Section("code", item.key, Dumps(ValueOf(item)))>>
    ELSE <<Section("markdown", item.key, <<"**", Label(item.key), ":** ">> \o item.text)>>

\* lines 279-288: what one (key, value) of the parsed error emits
ParsedSections(item) ==
    IF item.key \in excluded_keys THEN << >>
    ELSE IF item.kind = "dict"
    THEN (IF item.sub # << >>
          THEN <<Section("markdown", item.key, <<"**", Label(item.key), ":**">>),
                 Section("code", item.key, Dumps(ValueOf(item)))>>
          ELSE << >>)
    ELSE <<Section("markdown", item.key, <<"**", Label(item.key), ":** ">> \o item.text)>>

\* lines 278-288
RECURSIVE RenderParsed(_)
RenderParsed(items) ==
    IF items = << >> THEN << >> ELSE ParsedSections(Head(items)) \o RenderParsed(Tail(items))

\* lines 299-308: what one (key, value) of a dict evidence emits
FieldSections(f) ==
    IF f.key = "last_logs" THEN << >>
    ELSE IF f.kind = "list"
    THEN <<Section("markdown", f.key, <<"**", Label(f.key), ":**">>)>>
         \o [i \in 1..Len(f.items) |-> Section("bullet", f.key, <<"- ">> \o f.items[i])]
    ELSE <<Section("markdown", f.key,
                   <<"**", Label(f.key), ":** ">>
                   \o (IF f.kind = "int" THEN <<IntText(f.num)>> ELSE f.text))>>

\* lines 298-308
RECURSIVE RenderFields(_)
RenderFields(fields) ==
    IF fields = << >> THEN << >> ELSE FieldSections(Head(fields)) \o RenderFields(Tail(fields))

\* lines 313-315: the "Latest Logs" expander
LatestLogs(fields) ==
    IF \E i \in 1..Len(fields) : fields[i].key = "last_logs"
    THEN LET f == fields[CHOOSE i \in 1..Len(fields) : fields[i].key = "last_logs"]
         IN <<Section("code", "last_logs", JoinWith(f.items))>>
    ELSE << >>

\* the texts after the marker that the model draws: all short sequences of these atoms
BodyAtoms == {Marker, " ", "{", "}", "\"reason\":", "\"Gone\""}

\* the texts an error can be: str(e) of an ApiException, with or without a body
ErrorTexts ==
    ApiErrors \cup
    {head \o <<Marker>> \o body :
        head \in {<< >>, NotFoundHead}, body \in SeqsUpTo(BodyAtoms, MaxBodyLen)}

\* the evidence of the reports the rules build, on one pod
RuleEvidences ==
    LET ctx == Context("web-0",
                       [phase |-> "Running", container_statuses |-> Some(<<cCrashLoop>>)],
                       <<evBackOff, evUnhealthy>>,
                       StrLogs(JoinLines(<<lnStarted, lnFatal>>)))
    IN {RuleReport(RuleOrder[k], ctx).evidence : k \in 1..Len(RuleOrder)}

\* result.get("evidence"): the evidence of any report diagnose_pod returns
Evidences == {TextEvidence(t) : t \in ErrorTexts} \cup RuleEvidences

RenderInit ==
    /\ evidence = TextEvidence(<< >>)
    /\ render_pc = "idle"
    /\ parsed = << >>
    /\ sections = << >>

\* lines 241-267: a stored diagnosis is rendered
ShowReport ==
    /\ render_pc = "idle"
    /\ \E e \in Evidences : evidence' = e
    /\ render_pc' = "evidence"
    /\ parsed' = << >>
    /\ sections' = << >>
    /\ UNCHANGED <<diagnose_vars, session_vars>>

\* lines 271-288: a str with the marker
RenderApiError ==
    /\ render_pc = "evidence"
    /\ evidence.type = "str"
    /\ Contains(<<Marker>>, evidence.text)
    /\ parsed' = parse_k8s_api_error(evidence.text)
    /\ sections' = <<Section("markdown", "", <<"### Kubernetes API Error">>)>>
                   \o RenderParsed(parsed')
    /\ render_pc' = "done"
    /\ UNCHANGED <<evidence, diagnose_vars, session_vars>>

\* lines 289-291: a str without the marker
RenderText ==
    /\ render_pc = "evidence"
    /\ evidence.type = "str"
    /\ ~Contains(<<Marker>>, evidence.text)
    /\ sections' = <<Section("markdown", "", <<"### Pod Description Analysis">>),
                     Section("code", "", evidence.text)>>
    /\ render_pc' = "done"
    /\ UNCHANGED <<evidence, parsed, diagnose_vars, session_vars>>

\* lines 293-295: a list
RenderList ==
    /\ render_pc = "evidence"
    /\ evidence.type = "list"
    /\ sections' = <<Section("markdown", "", <<"**Logs / Events:**">>),
                     Section("code", "", JoinWith(evidence.items))>>
    /\ render_pc' = "done"
    /\ UNCHANGED <<evidence, parsed, diagnose_vars, session_vars>>

\* lines 297-308 and 313-315: a dict
RenderDict ==
    /\ render_pc = "evidence"
    /\ evidence.type = "dict"
    /\ sections' = RenderFields(evidence.fields) \o LatestLogs(evidence.fields)
    /\ render_pc' = "done"
    /\ UNCHANGED <<evidence, parsed, diagnose_vars, session_vars>>

\* the script is run again
Rerun ==
    /\ render_pc = "done"
    /\ render_pc' = "idle"
    /\ evidence' = TextEvidence(<< >>)
    /\ parsed' = << >>
    /\ sections' = << >>
    /\ UNCHANGED <<diagnose_vars, session_vars>>

RenderNext ==
    \/ ShowReport
    \/ RenderApiError
    \/ RenderText
    \/ RenderList
    \/ RenderDict
    \/ Rerun

-----------------------------------------------------------------------------
(* The dashboard session: one run of the script of app.py after each thing the
   user does, on a cluster that stays as it is *)

MaxMessages == 2

\* the kubeconfig contexts
Contexts == {"prod", "staging", "edge"}

\* the first option of each select box
NoCluster == NoneValue
NoNamespace == "-- Select a Namespace --"
NoPodSelected == "-- Select a Pod --"

\* the sorted namespaces of the pods of a cluster
NamespacesOf(context) ==
    CASE context = "prod" -> <<"default", "payments">>
      [] context = "staging" -> <<"default", "payments">>
      [] context = "edge" -> <<"default">>

\* the names of the pods of a namespace
PodsOf(context, ns) ==
    CASE context = "prod" /\ ns = "default" -> <<"web-0", "db-0">>
      [] context = "prod" /\ ns = "payments" -> <<"web-0", "db-0">>
      [] context = "staging" /\ ns = "default" -> <<"web-0">>
      [] context = "staging" /\ ns = "payments" -> <<"api-0">>
      [] context = "edge" /\ ns = "default" -> <<"web-0", "batch-0">>
      [] OTHER -> << >>

PodData(snapshot, evs, lg) == [pod |-> snapshot, events |-> evs, logs |-> lg]

\* what the API server answers about each pod
ClusterPod(context, ns, name) ==
    CASE context = "prod" /\ ns = "default" /\ name = "web-0" ->
            PodData([phase |-> "Pending", container_statuses |-> Some(<<cImagePullBackOff>>)],
                    << >>, StrLogs(<< >>))
      [] context = "prod" /\ ns = "default" /\ name = "db-0" ->
            PodData([phase |-> "Running", container_statuses |-> Some(<<cRunning>>)],
                    <<evPulled>>, StrLogs(JoinLines(<<lnStarted>>)))
      [] context = "prod" /\ ns = "payments" /\ name = "web-0" ->
            PodData([phase |-> "Running", container_statuses |-> Some(<<cCrashLoop>>)],
                    <<evBackOff, evPulled>>, StrLogs(JoinLines(<<lnStarted, lnFatal>>)))
      [] context = "prod" /\ ns = "payments" /\ name = "db-0" ->
            PodData([phase |-> "Running", container_statuses |-> Some(<<cRunning>>)],
                    << >>, NoneLogs)
      [] context = "staging" /\ ns = "default" /\ name = "web-0" ->
            PodData([phase |-> "Pending", container_statuses |-> NoneValue],
                    <<evFailedScheduling>>, StrLogs(<< >>))
      [] context = "staging" /\ ns = "payments" /\ name = "api-0" ->
            PodData([phase |-> "Running", container_statuses |-> Some(<<cRunning>>)],
                    <<evPulled>>, StrLogs(JoinLines(<<lnScanner>>)))
      [] context = "edge" /\ ns = "default" /\ name = "web-0" ->
            PodData([phase |-> "Running", container_statuses |-> Some(<<cRestartedOOM>>)],
                    << >>, StrLogs(JoinLines(<<lnStarted>>)))
      [] context = "edge" /\ ns = "default" /\ name = "batch-0" ->
            PodData([phase |-> "Failed", container_statuses |-> Some(<<cCompleted>>)],
                    << >>, StrLogs(<< >>))

\* line 231: diagnose_pod(v1_for_selected, prompt.strip(), namespace) on a pod of
\* the cluster
DiagnosePod(context, ns, name) ==
    LET d == ClusterPod(context, ns, name)
    IN Classify(Context(name, d.pod, d.events, d.logs))

\* "key in st.session_state", st.session_state.key = value, and the
\* `if key not in st.session_state: st.session_state.key = value` of the script
Has(s, key) == key \in DOMAIN s
Put(s, key, value) == (key :> value) @@ s
SetDefault(s, key, value) == s @@ (key :> value)

\* a session that has not run the script yet
EmptySession == << >>

\* the select boxes of a page that has just been opened
InitialWidgets ==
    [cluster |-> NoCluster,
     namespace_options |-> <<NoNamespace>>, namespace |-> NoNamespace,
     pod_options |-> <<NoPodSelected>>, pod |-> NoPodSelected]

\* lines 159-167: the namespaces, [] without a client or when the listing fails
get_namespaces(selected_context, ok) ==
    IF selected_context = NoneValue \/ ~ok THEN << >> ELSE NamespacesOf(selected_context[1])

\* lines 186-194: the pods, [] without a client or a namespace, or when the listing fails
get_pods(selected_context, ns, ok) ==
    IF selected_context = NoneValue \/ ns \in {NoNamespace, ""} \/ ~ok THEN << >>
    ELSE PodsOf(selected_context[1], ns)

\* lines 339-344: ask_groq_llm(summary=, cause=, recommendation=, user_question=).
\* The function of llm_groq.py line 10 has a fifth parameter, cluster_context, with
\* no default, so the call raises TypeError before any answer is asked for.
ask_groq_llm(question) == [kind |-> "raised", exc |-> "TypeError", answer |-> << >>]

\* One run of the script, part by part.  s is st.session_state as the part finds
\* it and w the select boxes as the user left them.  A select box keeps its value
\* while its options are what they were and starts at its first option otherwise;
\* after the st.rerun() of line 155 it keeps it or not (keep).

\* lines 9-18 and 147-155.  The run that st.rerun() starts finds last_cluster equal
\* to selected_context, changes nothing up to line 155 and goes on from line 158.
ClusterPart(s, selected_context) ==
    LET s2 == SetDefault(SetDefault(SetDefault(SetDefault(s, "ai_chat", << >>),
                                               "diagnosis_result", NoneValue),
                                    "last_diagnosed_pod", NoneValue),
                         "last_cluster", selected_context)
    IN IF selected_context # s2["last_cluster"]
       THEN [s |-> Put(Put(Put(Put(s2, "pending_input", << >>), "messages", << >>),
                           "last_namespace", NoneValue),
                       "last_cluster", selected_context),
             cluster_changed |-> TRUE]
       ELSE [s |-> s2, cluster_changed |-> FALSE]

\* lines 169-182; ns_ok: the listing of the namespaces succeeds
NamespacePart(s, w, kept, ns_ok) ==
    LET namespace_options == <<NoNamespace>> \o get_namespaces(w.cluster, ns_ok)
        namespace == IF namespace_options = w.namespace_options /\ kept
                     THEN w.namespace ELSE NoNamespace
        s4 == SetDefault(s, "last_namespace", Some(namespace))
    IN [s |-> IF Some(namespace) # s4["last_namespace"]
              THEN Put(Put(Put(s4, "pending_input", << >>), "clicked_pod", NoneValue),
                       "last_namespace", Some(namespace))
              ELSE s4,
        namespace_options |-> namespace_options,
        namespace |-> namespace]

\* lines 196-208; pods_ok: the listing of the pods succeeds
PodPart(s, w, namespace, kept, pods_ok) ==
    LET pod_options == <<NoPodSelected>> \o get_pods(w.cluster, namespace, pods_ok)
        selected_pod == IF pod_options = w.pod_options /\ kept THEN w.pod ELSE NoPodSelected
        clicked_pod == IF selected_pod = NoPodSelected THEN NoneValue ELSE Some(selected_pod)
        s6 == SetDefault(s, "pending_input", << >>)
    IN [s |-> IF clicked_pod # NoneValue /\ s6["pending_input"] # <<selected_pod>>
              THEN Put(s6, "pending_input", <<selected_pod>>)
              ELSE s6,
        pod_options |-> pod_options,
        selected_pod |-> selected_pod]

\* lines 210-222
PromptPart(s, selected_context, namespace) ==
    LET prompt == Strip(s["pending_input"])
    IN [s |-> IF prompt # << >> /\ Some(prompt) # s["last_diagnosed_pod"]
              THEN Put(Put(s, "diagnosis_result", NoneValue), "ai_chat", << >>)
              ELSE s,
        prompt |-> prompt,
        can_diagnose |-> /\ selected_context # NoneValue
                         /\ namespace \notin {NoNamespace, ""}
                         /\ prompt \notin {<< >>, <<NoPodSelected>>}]

\* lines 226-237
DiagnosePart(s, prompt, can_diagnose, selected_context, namespace) ==
    IF can_diagnose /\ s["last_diagnosed_pod"] # Some(prompt)
                    /\ s["diagnosis_result"] = NoneValue
    THEN LET outcome == DiagnosePod(selected_context[1], namespace, prompt[1])
             s9 == Put(s, "last_diagnosed_pod", Some(prompt))
         IN [s |-> IF outcome.kind = "raised"
                   THEN Put(s9, "messages",
                            Append(s9["messages"], <<"Error: ", outcome.exc>>))
                   ELSE Put(s9, "diagnosis_result", Some(outcome.report)),
             stopped |-> outcome.kind = "raised",
             called |-> Some(<<selected_context[1], namespace, prompt[1]>>)]
    ELSE [s |-> s, stopped |-> FALSE, called |-> NoneValue]

\* lines 241-352; a run that the question's TypeError ends at line 339 has displayed
\* the diagnosis and leaves ai_chat as it was
ShowPart(s, prompt, stopped, ai_user_message) ==
    IF ~stopped /\ s["diagnosis_result"] # NoneValue
    THEN [s |-> IF ai_user_message # NoneValue
                      /\ ask_groq_llm(ai_user_message[1]).kind # "raised"
                THEN Put(s, "ai_chat",
                         Append(s["ai_chat"],
                                [question |-> ai_user_message[1],
                                 answer |-> ask_groq_llm(ai_user_message[1]).answer]))
                ELSE s,
          rendered |-> Some([prompt |-> prompt, result |-> s["diagnosis_result"][1]])]
    ELSE [s |-> s, rendered |-> NoneValue]

\* what the three select boxes show
Selection(w) == <<w.cluster, w.namespace, w.pod>>

\* before the page is opened: the script has not run
SessionInit ==
    /\ session_state = EmptySession
    /\ widgets = InitialWidgets
    /\ rendered = NoneValue
    /\ called = NoneValue
    /\ last_event = "none"

\* the user has done event and left the select boxes as w: the script runs from its
\* first line to its last
Run(w, event, ai_user_message) ==
    \E ns_ok, pods_ok, keep \in BOOLEAN :
    \E c \in {ClusterPart(session_state, w.cluster)} :
    \E n \in {NamespacePart(c.s, w, ~c.cluster_changed \/ keep, ns_ok)} :
    \E p \in {PodPart(n.s, w, n.namespace, ~c.cluster_changed \/ keep, pods_ok)} :
    \E q \in {PromptPart(p.s, w.cluster, n.namespace)} :
    \E d \in {DiagnosePart(q.s, q.prompt, q.can_diagnose, w.cluster, n.namespace)} :
    \E r \in {ShowPart(d.s, q.prompt, d.stopped, ai_user_message)} :
        /\ Has(r.s, "messages") => Len(r.s["messages"]) <= MaxMessages
        /\ session_state' = r.s
        /\ widgets' = [cluster |-> w.cluster,
                       namespace_options |-> n.namespace_options,
                       namespace |-> n.namespace,
                       pod_options |-> p.pod_options,
                       pod |-> p.selected_pod]
        /\ rendered' = r.rendered
        /\ called' = d.called
        /\ last_event' = IF <<n.namespace, p.selected_pod>> = <<w.namespace, w.pod>>
                         THEN event ELSE "reset"
        /\ UNCHANGED <<diagnose_vars, render_vars>>

\* the page is opened: the first run of the script, nothing selected
OpenPage ==
    /\ session_state = EmptySession
    /\ Run(widgets, "open", NoneValue)

\* line 138: another cluster is picked
SelectCluster ==
    \E chosen \in {NoCluster} \cup {Some(x) : x \in Contexts} :
        /\ session_state # EmptySession
        /\ chosen # widgets.cluster
        /\ Run([widgets EXCEPT !.cluster = chosen], "cluster", NoneValue)

\* line 171: another namespace is picked
SelectNamespace ==
    \E i \in 1..Len(widgets.namespace_options) :
        /\ session_state # EmptySession
        /\ widgets.namespace_options[i] # widgets.namespace
        /\ Run([widgets EXCEPT !.namespace = widgets.namespace_options[i]], "namespace",
               NoneValue)

\* line 198: another pod is picked
SelectPod ==
    \E i \in 1..Len(widgets.pod_options) :
        /\ session_state # EmptySession
        /\ widgets.pod_options[i] # widgets.pod
        /\ Run([widgets EXCEPT !.pod = widgets.pod_options[i]], "pod", NoneValue)

\* line 332: a question is typed into the chat input, which exists while a diagnosis
\* is displayed
AskAI ==
    /\ rendered # NoneValue
    /\ Run(widgets, "ask", Some("why?"))

\* the script is run again with nothing touched
ScriptRerun ==
    /\ session_state # EmptySession
    /\ Run(widgets, "rerun", NoneValue)

SessionNext ==
    \/ OpenPage
    \/ SelectCluster
    \/ SelectNamespace
    \/ SelectPod
    \/ AskAI
    \/ ScriptRerun

-----------------------------------------------------------------------------
(* Specifications *)

Init == DiagnoseInit /\ RenderInit /\ SessionInit

Next == DiagnoseNext

\* diagnose_pod, called again and again
Spec == Init /\ [][Next]_vars

\* the evidence block, run again and again on the evidence of a report
SpecRender == Init /\ [][RenderNext]_vars

\* the dashboard session, one run of the script after the other
SpecSession == Init /\ [][SessionNext]_vars

-----------------------------------------------------------------------------
(* Properties of diagnose_pod *)

\* the call is over and its pod fetch succeeded
Fetched == pc = "done" /\ calls # << >> /\ calls[1].outcome = "ok"

\* the call is over and its pod fetch raised ApiException
NotFound == pc = "done" /\ calls # << >> /\ calls[1].outcome = "ApiException"

Containers == OrEmpty(pod.container_statuses)

EventTexts == EventMessages(events)

ReasonHas(keyword) == Contains(<<keyword>>, Lower(status.reason))
LastTerminationHas(keyword) == Contains(<<keyword>>, Lower(status.last_termination_reason))
LogsHave(keyword) == Contains(<<keyword>>, LogText(logs))
SomeEventHas(keyword) == \E i \in 1..Len(EventTexts) : Contains(<<keyword>>, EventTexts[i])
SomeEventHasLower(keyword) ==
    \E i \in 1..Len(EventTexts) : Contains(<<keyword>>, Lower(EventTexts[i]))

\* the conditions of the thirteen rules, on the values the call worked with
Holds(rule) ==
    CASE rule = "ImagePullFailure" -> ReasonHas("imagepullbackoff") \/ ReasonHas("errimagepull")
      [] rule = "SchedulingOrVolumeFailure" ->
            SomeEventHas("FailedScheduling") \/ SomeEventHas("FailedMount")
      [] rule = "DnsFailure" ->
            \/ LogsHave("no such host") \/ LogsHave("temporary failure in name resolution")
            \/ LogsHave("nxdomain") \/ LogsHave("servfail")
      [] rule = "PermissionFailure" -> LogsHave("permission denied")
      [] rule = "NetworkTimeout" -> LogsHave("timeout")
      [] rule = "OutOfMemoryKill" -> LastTerminationHas("oomkilled")
      [] rule = "ProbeFailure" -> SomeEventHasLower("probe failed")
      [] rule = "ScannerTraffic" ->
            \E p \in {"hnap1", "solr", "cgi-bin", "masscan", "nmap", "paloaltonetworks",
                      "odin", "favicon.ico", "go-http-client"} : LogsHave(p)
      [] rule = "ApplicationError" ->
            LogsHave("error") \/ LogsHave("exception") \/ LogsHave("fatal") \/ LogsHave("panic")
      [] rule = "CrashLoopBackOff" -> ReasonHas("crashloopbackoff")
      [] rule = "PodPending" -> pod.phase = "Pending"
      [] rule = "PodRunningHealthy" -> pod.phase = "Running"
      [] rule = "Unknown" -> TRUE

\* the fixed order of the rules: rule number k is SpecOrder[k]
SpecOrder ==
    <<"ImagePullFailure", "SchedulingOrVolumeFailure", "DnsFailure", "PermissionFailure",
      "NetworkTimeout", "OutOfMemoryKill", "ProbeFailure", "ScannerTraffic",
      "ApplicationError", "CrashLoopBackOff", "PodPending", "PodRunningHealthy", "Unknown">>

NoneOfRules(first, last) == \A k \in first..last : ~Holds(SpecOrder[k])

\* the last n of the lines of the log text
LastLines(n) ==
    LET lines == SplitLines(logs.text)
        first == IF Len(lines) > n THEN Len(lines) - n ELSE 0
    IN [i \in 1..(Len(lines) - first) |-> lines[first + i]]

ReturnedCategory(category) == result.kind = "report" /\ result.report.category = category

\* C1: when the pod fetch fails because the pod does not exist, diagnose_pod returns
\* the NotFound report, "Pod '<name>' could not be found in the cluster.", whose
\* evidence is the text of the fetch error, and nothing else runs: no events or logs
\* are fetched and no rule is evaluated.
C1_NotFoundShortCircuits ==
    NotFound =>
        /\ ReturnedCategory("NotFound")
        /\ result.report.summary = <<"Pod '", pod_name, "' could not be found in the cluster.">>
        /\ result.report.evidence = TextEvidence(calls[1].detail)
        /\ Len(calls) = 1
        /\ consulted = << >>
        /\ status = NoStatus

C1_Witness == NotFound /\ ReturnedCategory("NotFound") /\ calls[1].detail \in ApiErrors

\* C2: when the image-pull condition holds (the reason contains "imagepullbackoff" or
\* "errimagepull", whatever its case), diagnose_pod returns the ImagePullFailure report
\* with all the event records as its list evidence, also when the condition of a later
\* rule holds: only the first rule is consulted.
C2_ImagePullFirst ==
    (Fetched /\ Holds("ImagePullFailure")) =>
        /\ ReturnedCategory("ImagePullFailure")
        /\ result.report.summary = <<"The pod is unable to download the container image.">>
        /\ result.report.evidence = ListEvidence(EventTexts)
        /\ consulted = <<"ImagePullFailure">>

C2_Witness ==
    /\ Fetched /\ Holds("ImagePullFailure") /\ ReturnedCategory("ImagePullFailure")
    /\ Holds("SchedulingOrVolumeFailure") /\ Holds("ApplicationError")
    /\ Holds("OutOfMemoryKill") /\ Len(events) = 1

\* C3: for a pod that can be fetched diagnose_pod always returns a report: a failed
\* event fetch leaves an empty event list, a failed log fetch or a log result that is
\* no str leaves an empty log text, and no exception leaves diagnose_pod.
C3_AlwaysAReport ==
    Fetched =>
        /\ calls[2].outcome = "Exception" => events = << >>
        /\ (calls[3].outcome = "Exception" \/ logs.kind # "str") => LogText(logs) = << >>
        /\ result.kind = "report"

\* C4: when the reason is CrashLoopBackOff, the logs contain "fatal" and none of the
\* rules 1-8 matches, diagnose_pod returns the ApplicationError report, not the
\* CrashLoopBackOff report.
C4_ApplicationErrorBeforeCrashLoop ==
    (Fetched /\ status.reason = <<"CrashLoopBackOff">> /\ LogsHave("fatal")
        /\ NoneOfRules(1, 8)) =>
        /\ ReturnedCategory("ApplicationError")
        /\ result.report.summary = <<"Application-level errors detected in logs.">>
        /\ result.report.evidence = ListEvidence(LastLines(15))

C4_Witness ==
    /\ Fetched /\ status.reason = <<"CrashLoopBackOff">> /\ LogsHave("fatal")
    /\ NoneOfRules(1, 8) /\ ReturnedCategory("ApplicationError")

\* no container has a waiting or a terminated reason
NoContainerReason ==
    \A i \in 1..Len(Containers) :
        /\ Containers[i].waiting = NoneValue \/ OrEmpty(Containers[i].waiting[1]) = << >>
        /\ Containers[i].terminated = NoneValue \/ OrEmpty(Containers[i].terminated[1]) = << >>

\* the logs contain no keyword of a log-based rule (3, 4, 5, 8, 9)
BenignLogs ==
    /\ ~Holds("DnsFailure") /\ ~Holds("PermissionFailure") /\ ~Holds("NetworkTimeout")
    /\ ~Holds("ScannerTraffic") /\ ~Holds("ApplicationError")

HealthyReport ==
    /\ ReturnedCategory("PodRunningHealthy")
    /\ result.report.summary = <<"The pod is healthy and running normally.">>
    /\ result.report.recommendation = <<"No intervention required.">>
    /\ result.report.evidence = ListEvidence(LastLines(10))

\* C5, as stated: a Running pod with no waiting or terminated reason on any container
\* and logs without any keyword of the log-based rules gets the PodRunningHealthy
\* report.  (Stated for logs that are text.)
C5_RunningBenignIsHealthy ==
    (Fetched /\ logs.kind = "str" /\ pod.phase = "Running" /\ NoContainerReason /\ BenignLogs)
        => HealthyReport

\* C5, amended: a Running pod with no waiting or terminated reason on any container,
\* logs (text) without any keyword of the log-based rules, no event that matches the
\* scheduling/volume rule or the probe rule and no last termination by OOMKilled gets
\* the PodRunningHealthy report, "No intervention required.", with the last 10 log
\* lines as evidence.
C5_RunningUnmatchedIsHealthy ==
    (Fetched /\ logs.kind = "str" /\ pod.phase = "Running" /\ NoContainerReason /\ BenignLogs
        /\ ~Holds("SchedulingOrVolumeFailure") /\ ~Holds("OutOfMemoryKill")
        /\ ~Holds("ProbeFailure"))
        => HealthyReport

C5_Witness ==
    /\ Fetched /\ logs.kind = "str" /\ pod.phase = "Running" /\ NoContainerReason /\ BenignLogs
    /\ ~Holds("SchedulingOrVolumeFailure") /\ ~Holds("OutOfMemoryKill")
    /\ ~Holds("ProbeFailure")
    /\ HealthyReport
    /\ Len(SplitLines(logs.text)) > 10
    /\ Len(Containers) = 2

\* what a container's state says now: its waiting reason, else its terminated reason
CurrentReason(c) ==
    IF c.waiting # NoneValue THEN OrEmpty(c.waiting[1])
    ELSE IF c.terminated # NoneValue THEN OrEmpty(c.terminated[1])
    ELSE << >>

LastReason(c) == IF c.last_terminated # NoneValue THEN OrEmpty(c.last_terminated[1]) ELSE << >>

\* the first non-empty entry of a sequence of texts, "" when there is none
RECURSIVE FirstNonEmpty(_)
FirstNonEmpty(texts) ==
    IF texts = << >> THEN << >>
    ELSE IF Head(texts) # << >> THEN Head(texts)
    ELSE FirstNonEmpty(Tail(texts))

FirstCurrentReason == FirstNonEmpty([i \in 1..Len(Containers) |-> CurrentReason(Containers[i])])
FirstLastReason == FirstNonEmpty([i \in 1..Len(Containers) |-> LastReason(Containers[i])])

\* C8: the reason the image-pull and crash-loop rules read is the first non-empty
\* waiting or terminated reason of the containers, in container order: a later
\* container never replaces the reason taken from an earlier one.
C8_ReasonIsFirstNonEmpty == Fetched => status.reason = FirstCurrentReason

\* C9: the last termination reason the out-of-memory rule reads is the first non-empty
\* last-terminated reason of the containers: when that one is OOMKilled and none of the
\* rules 1-5 matches, diagnose_pod returns the OutOfMemoryKill report with the evidence
\* {restart_count: the sum of the restart counts, logs: the last 10 lines}, whatever
\* the later containers' last state.  (Stated for logs that are text.)
C9_OOMFromFirstLastTermination ==
    (Fetched /\ logs.kind = "str" /\ Contains(<<"oomkilled">>, Lower(FirstLastReason))
        /\ NoneOfRules(1, 5)) =>
        /\ ReturnedCategory("OutOfMemoryKill")
        /\ result.report.evidence =
              DictEvidence(<<IntField("restart_count",
                                      Sum([i \in 1..Len(Containers) |->
                                              Containers[i].restart_count])),
                             ListField("logs", LastLines(10))>>)

\* C10: for every fetched pod diagnose_pod returns exactly one report, the report of
\* the lowest-numbered rule whose condition holds, having consulted the rules up to
\* that one only; the Unknown report is returned exactly when no other rule matches.
C10_LowestRuleWins ==
    Fetched =>
        /\ result.kind = "report"
        /\ \E k \in 1..Len(SpecOrder) :
            /\ Holds(SpecOrder[k])
            /\ NoneOfRules(1, k - 1)
            /\ result.report.category = SpecOrder[k]
            /\ consulted = SubSeq(SpecOrder, 1, k)
        /\ result.report.category = "Unknown" <=> NoneOfRules(1, Len(SpecOrder) - 1)

\* the part of C10 the code keeps: whenever diagnose_pod returns a report, it is the
\* report of the lowest-numbered rule whose condition holds
LowestRuleWinsWhenReturned ==
    (Fetched /\ result.kind = "report") =>
        /\ \E k \in 1..Len(SpecOrder) :
            /\ Holds(SpecOrder[k])
            /\ NoneOfRules(1, k - 1)
            /\ result.report.category = SpecOrder[k]
            /\ consulted = SubSeq(SpecOrder, 1, k)
        /\ result.report.category = "Unknown" <=> NoneOfRules(1, Len(SpecOrder) - 1)

\* an exception leaves diagnose_pod for a fetched pod only when the log result is None
RaisesOnlyOnNoneLogs == (Fetched /\ result.kind = "raised") => logs.kind = "none"

\* the report of the scanner rule, lines 161-167
ScannerReport ==
    /\ ReturnedCategory("ScannerTraffic")
    /\ result.report.summary = <<"Non-critical external scan traffic detected.">>
    /\ result.report.recommendation = <<"This is normal behavior. No action is required.">>
    /\ result.report.evidence = ListEvidence(LastLines(10))

\* C11: the scanner rule comes after the rules 1-7 and before the application-error
\* rule: when the logs hold a scanner signature together with "error", "exception",
\* "fatal" or "panic" and none of the rules 1-7 matches, diagnose_pod returns the
\* ScannerTraffic report, whose recommendation is "This is normal behavior. No action
\* is required."; and when one of the rules 1-7 matches, the result is never the
\* ScannerTraffic report.
C11_ScannerBeforeApplicationError ==
    Fetched =>
        /\ (Holds("ScannerTraffic") /\ Holds("ApplicationError") /\ NoneOfRules(1, 7))
              => ScannerReport
        /\ ~NoneOfRules(1, 7) => ~ReturnedCategory("ScannerTraffic")

C11_Witness ==
    /\ Fetched /\ Holds("ScannerTraffic") /\ Holds("ApplicationError") /\ NoneOfRules(1, 7)
    /\ ScannerReport

\* a call where the logs hold a scanner signature and a rule of 1-7 wins
C11_EarlierRuleWins ==
    /\ Fetched /\ Holds("ScannerTraffic") /\ ~NoneOfRules(1, 7)
    /\ result.kind = "report"

-----------------------------------------------------------------------------
(* Properties of parse_k8s_api_error and of the evidence block *)

\* the evidence block has run on an API error text
ApiErrorRendered ==
    render_pc = "done" /\ evidence.type = "str" /\ Contains(<<Marker>>, evidence.text)

\* all that follows the first marker of s
SplitAllAfter(s) == SubSeq(s, Find(s, Marker, 1) + 1, Len(s))

HasItem(items, item) == \E i \in 1..Len(items) : items[i] = item

\* C6: for an error text with the marker, parse_k8s_api_error takes everything after
\* the marker and trims it; if that decodes as a JSON object its top-level keys are
\* merged into the result (over status_code and reason), and if it does not decode
\* the result holds full_body, the whole trimmed text after the marker.
C6_ParsesAllAfterMarker ==
    ApiErrorRendered =>
        LET trailing == Strip(SplitAllAfter(evidence.text))
            decoded == JsonLoads(trailing)
        IN /\ (decoded.ok /\ decoded.val.kind = "dict") =>
                \A i \in 1..Len(decoded.val.sub) : HasItem(parsed, decoded.val.sub[i])
           /\ ~decoded.ok => HasItem(parsed, Item("full_body", StrValue(trailing)))

\* what C6 says holds of the texts with one marker only
ParsesAllAfterSingleMarker ==
    (ApiErrorRendered /\ ~Contains(<<Marker>>, SplitAllAfter(evidence.text))) =>
        LET trailing == Strip(SplitAllAfter(evidence.text))
            decoded == JsonLoads(trailing)
        IN /\ (decoded.ok /\ decoded.val.kind = "dict") =>
                \A i \in 1..Len(decoded.val.sub) : HasItem(parsed, decoded.val.sub[i])
           /\ ~decoded.ok => HasItem(parsed, Item("full_body", StrValue(trailing)))

\* the keys of the mapping being rendered whose value is an empty mapping
EmptyMappingKeys ==
    {parsed[i].key : i \in {j \in 1..Len(parsed) : parsed[j].kind = "dict" /\ parsed[j].sub = << >>}}
    \cup {evidence.fields[i].key : i \in {j \in 1..Len(evidence.fields) :
                                              evidence.fields[j].kind = "dict"}}

\* C7: the evidence block emits no section for an empty sub-mapping: a field of the
\* parsed API error, or of a dict evidence, whose value is an empty mapping gets no
\* label and no block.
C7_NoSectionForEmptyMapping ==
    render_pc = "done" =>
        \A i \in 1..Len(sections) : sections[i].key \notin EmptyMappingKeys

C7_Witness ==
    /\ ApiErrorRendered
    /\ \E k \in EmptyMappingKeys : k \notin excluded_keys
    /\ \E i \in 1..Len(sections) : sections[i].key = "message"

-----------------------------------------------------------------------------
(* Properties of the dashboard session *)

\* a cluster, a namespace and a pod are selected
FullySelected ==
    /\ widgets.cluster # NoCluster
    /\ widgets.namespace # NoNamespace
    /\ widgets.pod # NoPodSelected

\* what diagnose_pod returns for the selected cluster, namespace and pod
DiagnosisOfSelection == DiagnosePod(widgets.cluster[1], widgets.namespace, widgets.pod)

\* the run displayed a diagnosis while a cluster, a namespace and a pod were selected
DisplayedForSelection == rendered # NoneValue /\ FullySelected

\* a run that nothing but a rerun or a question started, the selection being what it
\* was, does not call diagnose_pod
RerunNeverDiagnoses == last_event \in {"rerun", "ask"} => called = NoneValue

\* when a run calls diagnose_pod with a pod selected, it is for the selection
DiagnosesTheSelection ==
    (called # NoneValue /\ FullySelected) =>
        called[1] = <<widgets.cluster[1], widgets.namespace, widgets.pod>>

\* C12: in a session, after any selections of cluster, namespace and pod, reruns and
\* questions, a diagnosis that is displayed is what diagnose_pod returns for the
\* cluster, namespace and pod now selected; a rerun with the selection unchanged does
\* not call diagnose_pod again, and after a change of cluster, namespace or pod the
\* diagnosis of the earlier selection is not displayed for the new one.
C12_DisplayedDiagnosisIsOfSelection ==
    /\ DisplayedForSelection => Returned(rendered[1].result) = DiagnosisOfSelection
    /\ RerunNeverDiagnoses

====
